---- MODULE Spec2Model ----
(***************************************************************************)
(* Model of the Monaco integration glue of Theia:                          *)
(*   - MonacoCommands.ACTIONS, harvested from the embedded editor's menu,  *)
(*     action and keybinding registries (monaco-command.ts);               *)
(*   - MonacoEditorCommandHandlers: registerCommands, the handlers it      *)
(*     builds, their enablement and execution, the service accessor, and   *)
(*     the indentation / end-of-line / tab-size prompts;                   *)
(*   - MonacoNativeTextInputFocusContext (monaco-keybinding-contexts.ts).  *)
(* Strings are TLA+ strings; an absent (undefined) value is a sentinel of  *)
(* the same type as the values it stands beside.                           *)
(***************************************************************************)
EXTENDS Integers, Sequences, FiniteSets, TLC

VARIABLES
    \* the embedded editor's registries (read by this code, never written)
    menuItems,              \* MenuRegistry.getMenuItems(7)
    editorActions,          \* EditorExtensionsRegistry.getEditorActions()
    defaultKeybindings,     \* KeybindingsRegistry.getDefaultKeybindings()
    editorCommands,         \* ids for which getEditorCommand(id) is defined
    commandsRegistry,       \* CommandsRegistry.getCommands(), in key order
    \* state of this code
    Actions,                \* MonacoCommands.ACTIONS (a reserved word here), in insertion order
    commandRegistry,        \* registrations made in the host CommandRegistry
    monacoCommandRegistry,  \* handlers given to MonacoCommandRegistry
    phase,                  \* "module" | "constructed" | "registered" | "failed"
    outcome,                \* what the last operation returned, called or threw
    \* the document, for the focus context
    elementId,              \* element -> its id attribute
    parentElement,          \* element -> its parent (NoElement at a root)
    activeElement,          \* document.activeElement (NoElement when none)
    activeTagName,          \* tag name of the active element
    parent,                 \* the loop variable of activeElementIsInEditor
    pc,                     \* "idle" | "walk" | "done"
    entry,                  \* the method called: "isEnabled" | "activeElementIsInEditor"
    steps,                  \* iterations of the loop so far
    inEditor,               \* what activeElementIsInEditor() returned
    enabled,                \* what isEnabled() returned
    \* the editor, for the configuration prompts
    model,                  \* editor.document.textEditorModel (NoModel when absent)
    prompt,                 \* the selection prompt the quick open service shows
    lastRun                 \* what the last bespoke handler or prompt callback did

cmdVars == <<menuItems, editorActions, defaultKeybindings, editorCommands,
             commandsRegistry, Actions, commandRegistry, monacoCommandRegistry,
             phase, outcome>>
focusVars == <<elementId, parentElement, activeElement, activeTagName, parent,
               pc, entry, steps, inEditor, enabled>>
configVars == <<model, prompt, lastRun>>
vars == <<cmdVars, focusVars, configVars>>

(***************************************************************************)
(* Bounds of the model.                                                    *)
(***************************************************************************)
MaxMenuItems == 1
MaxActions == 2
MaxKeybindings == 2
MaxArgs == 2
MaxElements == 3
MaxTabSize == 10

(***************************************************************************)
(* Strings.                                                                *)
(***************************************************************************)
\* faulty variant of startsWith: the prefix found at any position
Includes(s, p) ==
    \E i \in 1..(Len(s) + 1) :
        i + Len(p) - 1 <= Len(s) /\ SubSeq(s, i, i + Len(p) - 1) = p
\* String.prototype.startsWith
StartsWith(s, p) == Len(s) >= Len(p) /\ SubSeq(s, 1, Len(p)) = p

RECURSIVE SeqsUpTo(_, _)
SeqsUpTo(S, n) ==
    IF n = 0 THEN {<<>>}
    ELSE LET shorter == SeqsUpTo(S, n - 1)
         IN shorter \cup {Append(s, x) : s \in shorter, x \in S}

(***************************************************************************)
(* A JavaScript Map: entries in insertion order, set() replacing the value *)
(* of a key that is present and appending otherwise.                       *)
(***************************************************************************)
MapHas(m, k) == \E i \in 1..Len(m) : m[i].key = k
MapGet(m, k, undefined) ==
    IF MapHas(m, k)
    THEN m[CHOOSE i \in 1..Len(m) : m[i].key = k].value
    ELSE undefined
MapSet(m, k, v) ==
    IF MapHas(m, k)
    THEN [i \in 1..Len(m) |-> IF m[i].key = k THEN [key |-> k, value |-> v] ELSE m[i]]
    ELSE Append(m, [key |-> k, value |-> v])
MapKeys(m) == {m[i].key : i \in 1..Len(m)}

(***************************************************************************)
(* MonacoCommands                                                          *)
(***************************************************************************)
NoLabel == "<undefined label>"
NoIcon == "<undefined icon>"
NoCommand == [id |-> "<undefined>", icon |-> NoIcon]

EXCLUDE_ACTIONS == {
    "editor.action.quickCommand",
    "editor.action.clipboardCutAction",
    "editor.action.clipboardCopyAction",
    "editor.action.clipboardPasteAction" }

\* for (const menuItem of MenuRegistry.getMenuItems(7)) ...
RECURSIVE IconsOf(_, _)
IconsOf(items, icons) ==
    IF items = <<>> THEN icons
    ELSE LET commandItem == Head(items).command
         IN IconsOf(Tail(items),
                    IF commandItem # NoCommand /\ commandItem.icon # NoIcon
                    THEN MapSet(icons, commandItem.id, commandItem.icon)
                    ELSE icons)

\* for (const action of ...getEditorActions()) ...
Excluded(id) == id \in EXCLUDE_ACTIONS

RECURSIVE HarvestActions(_, _, _)
HarvestActions(actions, icons, acc) ==
    IF actions = <<>> THEN acc
    ELSE LET id == Head(actions).id
         IN HarvestActions(Tail(actions), icons,
                IF ~Excluded(id)
                THEN MapSet(acc, id, [id |-> id,
                                      label |-> Head(actions).label,
                                      icon |-> MapGet(icons, id, NoIcon)])
                ELSE acc)

\* faulty variant of the test below: !ACTIONS.has(id) left out
KeybindingOverwrites(acc, id) == ~Excluded(id)
\* for (const keybinding of ...getDefaultKeybindings()) ...
\*     if (!ACTIONS.has(id) && !EXCLUDE_ACTIONS.has(id))
KeybindingAdds(acc, id) == ~MapHas(acc, id) /\ ~Excluded(id)

RECURSIVE HarvestKeybindings(_, _)
HarvestKeybindings(keybindings, acc) ==
    IF keybindings = <<>> THEN acc
    ELSE LET id == Head(keybindings).command
         IN HarvestKeybindings(Tail(keybindings),
                IF KeybindingAdds(acc, id)
                THEN MapSet(acc, id, [id |-> id, label |-> NoLabel, icon |-> NoIcon])
                ELSE acc)

Harvest(menu, actions, keybindings) ==
    HarvestKeybindings(keybindings,
                       HarvestActions(actions, IconsOf(menu, <<>>), <<>>))

(***************************************************************************)
(* MonacoEditorCommandHandlers: building handlers                          *)
(***************************************************************************)
NoError == "<no error>"
NoWhen == "<no when>"           \* command.when is undefined
WhenWithoutKey == "<no key>"    \* command.when has no key
NoHandler == [kind |-> "<no handler>", id |-> "", when |-> NoWhen]

\* CommandsRegistry.getCommand(id), NoCommandEntry when undefined
NoCommandEntry == [id |-> "<undefined>", when |-> NoWhen]
GetCommand(id) ==
    IF \E i \in 1..Len(commandsRegistry) : commandsRegistry[i].id = id
    THEN commandsRegistry[CHOOSE i \in 1..Len(commandsRegistry) :
                              commandsRegistry[i].id = id]
    ELSE NoCommandEntry
\* EditorExtensionsRegistry.getEditorCommand(id) is defined
HasEditorCommand(id) == id \in editorCommands

\* faulty variant of newEditorCommandHandler: the commands registry tried first
NewEditorCommandHandlerCoreFirst(id) ==
    IF GetCommand(id) # NoCommandEntry
    THEN [handler |-> [kind |-> "coreCommand", id |-> id, when |-> GetCommand(id).when],
          error |-> NoError]
    ELSE IF HasEditorCommand(id)
    THEN [handler |-> [kind |-> "editorCommand", id |-> id, when |-> NoWhen],
          error |-> NoError]
    ELSE [handler |-> NoHandler,
          error |-> "Could not find monaco command with ID: " \o id]
\* faulty variant of newEditorCommandHandler: no throw for an unknown id
NewEditorCommandHandlerLenient(id) ==
    IF HasEditorCommand(id)
    THEN [handler |-> [kind |-> "editorCommand", id |-> id, when |-> NoWhen],
          error |-> NoError]
    ELSE [handler |-> [kind |-> "coreCommand", id |-> id, when |-> GetCommand(id).when],
          error |-> NoError]
\* newEditorCommandHandler(id): the handler it returns, or the error it throws
NewEditorCommandHandler(id) ==
    IF HasEditorCommand(id)
    THEN [handler |-> [kind |-> "editorCommand", id |-> id, when |-> NoWhen],
          error |-> NoError]
    ELSE IF GetCommand(id) # NoCommandEntry
    THEN [handler |-> [kind |-> "coreCommand", id |-> id, when |-> GetCommand(id).when],
          error |-> NoError]
    ELSE [handler |-> NoHandler,
          error |-> "Could not find monaco command with ID: " \o id]

\* isNativeTextInputAware(command)
IsNativeTextInputAware(when) == when # NoWhen /\ when = "textInputFocus"

\* the isEnabled of a built handler; activeCodeEditor, focusedCodeEditor and
\* nativeTextInput are what editorService.getActiveCodeEditor(),
\* editorService.hasFocusedCodeEditor() and NativeTextInputFocusContext.is() answer
HandlerIsEnabled(h, activeCodeEditor, focusedCodeEditor, nativeTextInput) ==
    IF h.kind = "editorCommand"
    THEN activeCodeEditor \/ focusedCodeEditor
    ELSE IF activeCodeEditor \/ focusedCodeEditor THEN TRUE
    ELSE IF IsNativeTextInputAware(h.when) /\ nativeTextInput THEN TRUE
    ELSE FALSE

\* the call a handler's execute(...args) makes: the callee, the accessor it is
\* given and the parameters that follow the accessor
HandlerCall(h, args) ==
    IF h.kind = "editorCommand"
    THEN [callee |-> h.id, via |-> "editorCommand.runCommand",
          accessor |-> "serviceAccessor", params |-> <<args>>]
    ELSE IF h.kind = "coreCommand"
    THEN [callee |-> h.id, via |-> "command.handler",
          accessor |-> "serviceAccessor", params |-> <<args>>]
    ELSE [callee |-> h.id, via |-> "instantiationService.invokeFunction",
          accessor |-> "instantiationService", params |-> args]

ICodeEditorService == "ICodeEditorService"
NoService == "<no service>"
\* faulty variant of serviceAccessor.get: the editor service for any id
ServiceAccessorGetAny(id) == [service |-> "editorService", error |-> NoError]
\* serviceAccessor.get(id): the service it returns, or the error it throws
ServiceAccessorGet(id) ==
    IF id # ICodeEditorService
    THEN [service |-> NoService,
          error |-> "Unhandled service identified: " \o id \o "."]
    ELSE [service |-> "editorService", error |-> NoError]

(***************************************************************************)
(* MonacoEditorCommandHandlers: registerCommands                           *)
(***************************************************************************)
\* CommandRegistry.registerCommand(command, handler), the host's: the
\* registrations are kept in the order they are made
RegisterCommand(reg, command, handler) ==
    Append(reg, [command |-> command, handler |-> handler])

\* registerEditorCommandHandlers(): the handlers given to MonacoCommandRegistry
RegisterEditorCommandHandlers ==
    << [id |-> "EditorCommands.SHOW_REFERENCES",
        handler |-> [kind |-> "showReferences", useSpaces |-> FALSE]],
       [id |-> "EditorCommands.CONFIG_INDENTATION",
        handler |-> [kind |-> "configIndentation", useSpaces |-> FALSE]],
       [id |-> "EditorCommands.CONFIG_EOL",
        handler |-> [kind |-> "configEol", useSpaces |-> FALSE]],
       [id |-> "EditorCommands.INDENT_USING_SPACES",
        handler |-> [kind |-> "configTabSize", useSpaces |-> TRUE]],
       [id |-> "EditorCommands.INDENT_USING_TABS",
        handler |-> [kind |-> "configTabSize", useSpaces |-> FALSE]] >>

\* registerBuiltinMonacoActions(): the registry after the loop over
\* ACTIONS.values() and the error that ended it, if one did
RECURSIVE RegisterBuiltinFrom(_, _)
RegisterBuiltinFrom(entries, reg) ==
    IF entries = <<>> THEN [registry |-> reg, error |-> NoError]
    ELSE LET action == Head(entries).value
             built == NewEditorCommandHandler(action.id)
         IN IF built.error # NoError
            THEN [registry |-> reg, error |-> built.error]
            ELSE RegisterBuiltinFrom(Tail(entries),
                                     RegisterCommand(reg, action, built.handler))
\* faulty variant of registerBuiltinMonacoActions: the editor actions only
RegisterBuiltinLabelledOnly(reg) ==
    RegisterBuiltinFrom(SelectSeq(Actions, LAMBDA e : e.value.label # NoLabel), reg)
RegisterBuiltinMonacoActions(reg) == RegisterBuiltinFrom(Actions, reg)

\* faulty variant of the test below
IsInternalAny(command) == Includes(command, "_execute")
\* registerInternalLanguageServiceCommands(): command.startsWith('_execute')
IsInternal(command) == StartsWith(command, "_execute")

RECURSIVE RegisterInternalFrom(_, _)
RegisterInternalFrom(commands, reg) ==
    IF commands = <<>> THEN reg
    ELSE LET command == Head(commands).id
         IN RegisterInternalFrom(Tail(commands),
                IF IsInternal(command)
                THEN RegisterCommand(reg,
                         [id |-> command, label |-> NoLabel, icon |-> NoIcon],
                         [kind |-> "internal", id |-> command, when |-> NoWhen])
                ELSE reg)
RegisterInternalLanguageServiceCommands(reg) ==
    RegisterInternalFrom(commandsRegistry, reg)

(***************************************************************************)
(* The state of the command side, and its operations.                      *)
(***************************************************************************)
NoCall == [callee |-> "", via |-> "", accessor |-> "", params |-> <<>>]
NoEnv == [activeCodeEditor |-> FALSE, focusedCodeEditor |-> FALSE,
          nativeTextInput |-> FALSE]
NoOutcome == [op |-> "none", id |-> "", args |-> <<>>, error |-> NoError,
              handler |-> NoHandler, call |-> NoCall, service |-> NoService,
              env |-> NoEnv, enabled |-> FALSE]

FocusIdle ==
    /\ elementId = <<>> /\ parentElement = <<>>
    /\ activeElement = 0 /\ activeTagName = ""
    /\ parent = 0 /\ pc = "idle" /\ entry = "" /\ steps = 0
    /\ inEditor = FALSE /\ enabled = FALSE
NoModel == [tabSize |-> 0, insertSpaces |-> FALSE, eol |-> "<no model>"]
NoPrompt == [kind |-> "<no prompt>", placeholder |-> "", origin |-> "",
             sizes |-> <<>>, labels |-> <<>>, useSpaces |-> FALSE, tabSize |-> 0]
NoRun == [op |-> "none", handler |-> "", on |-> "", item |-> 0, mode |-> "",
          lookFor |-> "", returned |-> FALSE, index |-> 0, opened |-> FALSE,
          modelCall |-> "", before |-> NoModel, error |-> NoError]
ConfigIdle == model = NoModel /\ prompt = NoPrompt /\ lastRun = NoRun
CommandsIdle ==
    /\ menuItems = <<>> /\ editorActions = <<>> /\ defaultKeybindings = <<>>
    /\ editorCommands = {} /\ commandsRegistry = <<>>
    /\ Actions = <<>> /\ commandRegistry = <<>> /\ monacoCommandRegistry = <<>>
    /\ phase = "module" /\ outcome = NoOutcome

\* the registries' contents the model draws from
ActionOf(id, i) == [id |-> id, label |-> "Action " \o ToString(i)]
ActionLists(ids) ==
    {[i \in 1..Len(s) |-> ActionOf(s[i], i)] : s \in SeqsUpTo(ids, MaxActions)}
KeybindingLists(ids) ==
    {[i \in 1..Len(s) |-> [command |-> s[i]]] : s \in SeqsUpTo(ids, MaxKeybindings)}
MenuItemPool ==
    { [command |-> NoCommand],
      [command |-> [id |-> "editor.action.revealDefinition", icon |-> NoIcon]],
      [command |-> [id |-> "editor.action.revealDefinition", icon |-> "go-to-icon"]],
      [command |-> [id |-> "editor.action.clipboardCopyAction", icon |-> "copy-icon"]] }
\* a Map has each key once: "undo" with any when, the others without one
CommandsRegistryContents ==
    { SelectSeq(<< [id |-> "undo", when |-> w],
                   [id |-> "_executeHoverProvider", when |-> NoWhen],
                   [id |-> "my_executeCommand", when |-> NoWhen] >>,
                LAMBDA c : c.id \in present)
        : w \in {NoWhen, WhenWithoutKey, "textInputFocus", "editorTextFocus"},
          present \in SUBSET {"undo", "_executeHoverProvider", "my_executeCommand"} }
CommandIds == {"undo", "_executeHoverProvider", "editor.action.revealDefinition",
               "my_executeCommand", "editor.action.clipboardCopyAction"}
ServiceIds == {ICodeEditorService, "IContextKeyService", "ICommandService"}
ArgLists == SeqsUpTo({"a", "b"}, MaxArgs)

Init ==
    /\ menuItems = <<>>
    /\ editorActions \in ActionLists({"editor.action.revealDefinition"})
    /\ defaultKeybindings \in KeybindingLists({"undo", "_executeHoverProvider"})
    /\ editorCommands \in SUBSET {"editor.action.revealDefinition", "undo"}
    /\ commandsRegistry \in CommandsRegistryContents
    /\ Actions = <<>> /\ commandRegistry = <<>> /\ monacoCommandRegistry = <<>>
    /\ phase = "module" /\ outcome = NoOutcome
    /\ FocusIdle /\ ConfigIdle

\* the module's initialization: MonacoCommands.ACTIONS is harvested
InitializeMonacoCommands ==
    /\ phase = "module"
    /\ Actions' = Harvest(menuItems, editorActions, defaultKeybindings)
    /\ phase' = "constructed"
    /\ UNCHANGED <<menuItems, editorActions, defaultKeybindings, editorCommands,
                   commandsRegistry, commandRegistry, monacoCommandRegistry, outcome>>
    /\ UNCHANGED <<focusVars, configVars>>

\* registerCommands()
RegisterCommands ==
    /\ phase = "constructed"
    /\ outcome = NoOutcome
    /\ monacoCommandRegistry' = RegisterEditorCommandHandlers
    /\ LET builtin == RegisterBuiltinMonacoActions(commandRegistry)
       IN IF builtin.error # NoError
          THEN /\ commandRegistry' = builtin.registry
               /\ phase' = "failed"
               /\ outcome' = [NoOutcome EXCEPT !.op = "registerCommands",
                                               !.error = builtin.error]
          ELSE /\ commandRegistry' =
                      RegisterInternalLanguageServiceCommands(builtin.registry)
               /\ phase' = "registered"
               /\ outcome' = NoOutcome
    /\ UNCHANGED <<menuItems, editorActions, defaultKeybindings, editorCommands,
                   commandsRegistry, Actions>>
    /\ UNCHANGED <<focusVars, configVars>>

\* newEditorCommandHandler(id), called on its own
BuildHandler(id) ==
    /\ phase # "module"
    /\ outcome = NoOutcome
    /\ LET built == NewEditorCommandHandler(id)
       IN outcome' = [NoOutcome EXCEPT !.op = "newEditorCommandHandler", !.id = id,
                                       !.handler = built.handler,
                                       !.error = built.error]
    /\ UNCHANGED <<menuItems, editorActions, defaultKeybindings, editorCommands,
                   commandsRegistry, Actions, commandRegistry,
                   monacoCommandRegistry, phase>>
    /\ UNCHANGED <<focusVars, configVars>>

\* execute(...args) of the handler of the i-th registration
Execute(i, args) ==
    /\ i \in 1..Len(commandRegistry)
    /\ outcome = NoOutcome
    /\ LET h == commandRegistry[i].handler
       IN outcome' = [NoOutcome EXCEPT !.op = "execute", !.id = commandRegistry[i].command.id,
                                       !.args = args, !.handler = h,
                                       !.call = HandlerCall(h, args)]
    /\ UNCHANGED <<menuItems, editorActions, defaultKeybindings, editorCommands,
                   commandsRegistry, Actions, commandRegistry,
                   monacoCommandRegistry, phase>>
    /\ UNCHANGED <<focusVars, configVars>>

\* the command just executed asks the accessor it was given for a service
RequestService(id) ==
    /\ outcome.op = "execute"
    /\ outcome.call.accessor = "serviceAccessor"
    /\ LET got == ServiceAccessorGet(id)
       IN outcome' = [NoOutcome EXCEPT !.op = "serviceAccessor.get", !.id = id,
                                       !.handler = outcome.handler,
                                       !.service = got.service,
                                       !.error = got.error]
    /\ UNCHANGED <<menuItems, editorActions, defaultKeybindings, editorCommands,
                   commandsRegistry, Actions, commandRegistry,
                   monacoCommandRegistry, phase>>
    /\ UNCHANGED <<focusVars, configVars>>

\* isEnabled() of the handler of the i-th registration
IsEnabled(i, activeCodeEditor, focusedCodeEditor, nativeTextInput) ==
    /\ i \in 1..Len(commandRegistry)
    /\ commandRegistry[i].handler.kind # "internal"
    /\ outcome = NoOutcome
    /\ LET h == commandRegistry[i].handler
       IN outcome' = [NoOutcome EXCEPT
               !.op = "isEnabled", !.id = commandRegistry[i].command.id,
               !.handler = h,
               !.env = [activeCodeEditor |-> activeCodeEditor,
                        focusedCodeEditor |-> focusedCodeEditor,
                        nativeTextInput |-> nativeTextInput],
               !.enabled = HandlerIsEnabled(h, activeCodeEditor, focusedCodeEditor,
                                            nativeTextInput)]
    /\ UNCHANGED <<menuItems, editorActions, defaultKeybindings, editorCommands,
                   commandsRegistry, Actions, commandRegistry,
                   monacoCommandRegistry, phase>>
    /\ UNCHANGED <<focusVars, configVars>>

\* the caller has taken the result (or caught the error) of the last operation
Return ==
    /\ outcome # NoOutcome
    /\ outcome' = NoOutcome
    /\ UNCHANGED <<menuItems, editorActions, defaultKeybindings, editorCommands,
                   commandsRegistry, Actions, commandRegistry,
                   monacoCommandRegistry, phase>>
    /\ UNCHANGED <<focusVars, configVars>>

Next ==
    \/ InitializeMonacoCommands
    \/ RegisterCommands
    \/ \E id \in CommandIds : BuildHandler(id)
    \/ \E i \in 1..Len(commandRegistry), args \in ArgLists : Execute(i, args)
    \/ \E id \in ServiceIds : RequestService(id)
    \/ \E i \in 1..Len(commandRegistry), a \in BOOLEAN, f \in BOOLEAN, n \in BOOLEAN :
           IsEnabled(i, a, f, n)
    \/ Return

Spec == Init /\ [][Next]_vars

\* the harvest alone, over every content of the menu, action and keybinding
\* registries
InitHarvest ==
    /\ menuItems \in SeqsUpTo(MenuItemPool, MaxMenuItems)
    /\ editorActions \in ActionLists({"editor.action.revealDefinition",
                                      "editor.action.clipboardCopyAction",
                                      "editor.action.rename"})
    /\ defaultKeybindings \in KeybindingLists({"undo",
                                               "editor.action.revealDefinition",
                                               "editor.action.clipboardCopyAction"})
    /\ editorCommands = {}
    /\ commandsRegistry = <<>>
    /\ Actions = <<>> /\ commandRegistry = <<>> /\ monacoCommandRegistry = <<>>
    /\ phase = "module" /\ outcome = NoOutcome
    /\ FocusIdle /\ ConfigIdle

NextHarvest == InitializeMonacoCommands

SpecHarvest == InitHarvest /\ [][NextHarvest]_vars

(***************************************************************************)
(* Properties of the command side.                                         *)
(***************************************************************************)
CommandsRegistryIds == {commandsRegistry[i].id : i \in 1..Len(commandsRegistry)}
Unknown(id) == id \notin editorCommands /\ id \notin CommandsRegistryIds
NotFoundMessage(id) == "Could not find monaco command with ID: " \o id
RegisteredIds == {commandRegistry[i].command.id : i \in 1..Len(commandRegistry)}
AfterRegisterCommands == phase \in {"registered", "failed"}

\* C1: newEditorCommandHandler(id), for an id that is neither an editor-scoped
\* command nor in the commands registry, throws an error whose message reports
\* the id and returns no handler; registerCommands, which builds a handler per
\* harvested id, throws the same error and registers nothing under that id.
C1_UnknownIdRaises ==
    /\ (outcome.op = "newEditorCommandHandler" /\ Unknown(outcome.id))
          => /\ outcome.error = NotFoundMessage(outcome.id)
             /\ outcome.handler = NoHandler
    /\ (outcome.op = "newEditorCommandHandler" /\ ~Unknown(outcome.id))
          => /\ outcome.error = NoError
             /\ outcome.handler # NoHandler
    /\ \A k \in MapKeys(Actions) :
          (AfterRegisterCommands /\ Unknown(k)) => k \notin RegisteredIds
C1_Witness ==
    /\ outcome.op = "newEditorCommandHandler"
    /\ outcome.id = "editor.action.revealDefinition"
    /\ "undo" \in editorCommands
    /\ commandsRegistry # <<>>
    /\ outcome.error = NotFoundMessage("editor.action.revealDefinition")

\* C2 as stated: building a handler for an unknown id is the only operation
\* that raises; the service accessor never raises.
C2_SingleFailureMode ==
    outcome.error # NoError
        => /\ outcome.op \in {"newEditorCommandHandler", "registerCommands"}
           /\ \E id \in CommandIds : Unknown(id) /\ outcome.error = NotFoundMessage(id)

\* C2, amended: there are two failure modes.  An error is either the unknown
\* id error of newEditorCommandHandler (also out of registerCommands), or the
\* "Unhandled service identified" error of serviceAccessor.get, which is raised
\* exactly when the service asked for is not the code editor service; asked for
\* that one, the accessor returns the editor service.  Executing a handler and
\* asking it whether it is enabled raise nothing themselves.
C2_TwoFailureModes ==
    /\ outcome.error # NoError
        => \/ /\ outcome.op \in {"newEditorCommandHandler", "registerCommands"}
              /\ \E id \in CommandIds :
                     Unknown(id) /\ outcome.error = NotFoundMessage(id)
           \/ /\ outcome.op = "serviceAccessor.get"
              /\ outcome.id # ICodeEditorService
              /\ outcome.error = "Unhandled service identified: " \o outcome.id \o "."
    /\ outcome.op = "serviceAccessor.get"
        => IF outcome.id = ICodeEditorService
           THEN outcome.error = NoError /\ outcome.service = "editorService"
           ELSE outcome.error # NoError /\ outcome.service = NoService
    /\ outcome.op \in {"execute", "isEnabled"} => outcome.error = NoError
C2_Witness ==
    /\ outcome.op = "serviceAccessor.get"
    /\ outcome.id = "IContextKeyService"
    /\ outcome.handler.kind = "editorCommand"
    /\ outcome.error = "Unhandled service identified: IContextKeyService."

\* the first harvested entry whose id is unknown, 0 when there is none
FirstUnknown ==
    IF \E i \in 1..Len(Actions) : Unknown(Actions[i].key)
    THEN CHOOSE i \in 1..Len(Actions) :
             /\ Unknown(Actions[i].key)
             /\ \A j \in 1..(i - 1) : ~Unknown(Actions[j].key)
    ELSE 0
InternalIds == {id \in CommandsRegistryIds : StartsWith(id, "_execute")}
HasRegistration(id, kinds) ==
    \E i \in 1..Len(commandRegistry) :
        /\ commandRegistry[i].command.id = id
        /\ commandRegistry[i].handler.kind \in kinds

\* C4 as stated: whatever the registries hold, once registerCommands has run
\* every id of ACTIONS is registered with a handler, and so is every internal
\* '_execute' command.
C4_MirrorsAlways ==
    AfterRegisterCommands
        => /\ \A k \in MapKeys(Actions) :
                  HasRegistration(k, {"editorCommand", "coreCommand"})
           /\ \A id \in InternalIds : HasRegistration(id, {"internal"})

\* C4, amended: when every id of ACTIONS is an editor-scoped command or a
\* command of the commands registry, registerCommands registers every id of
\* ACTIONS with a handler, in the order of ACTIONS, and after them every
\* internal '_execute' command.  Otherwise it throws at the first id of ACTIONS
\* that is neither, having registered exactly the ids before it and no
\* internal command.
C4_MirrorsWhenKnown ==
    AfterRegisterCommands
        => IF FirstUnknown = 0
           THEN /\ phase = "registered"
                /\ Len(commandRegistry) >= Len(Actions)
                /\ \A i \in 1..Len(Actions) :
                      /\ commandRegistry[i].command = Actions[i].value
                      /\ commandRegistry[i].handler.kind \in {"editorCommand", "coreCommand"}
                      /\ commandRegistry[i].handler.id = Actions[i].key
                /\ \A id \in InternalIds : HasRegistration(id, {"internal"})
                /\ \A i \in (Len(Actions) + 1)..Len(commandRegistry) :
                      commandRegistry[i].handler.kind = "internal"
           ELSE /\ phase = "failed"
                /\ Len(commandRegistry) = FirstUnknown - 1
                /\ \A i \in 1..Len(commandRegistry) :
                      /\ commandRegistry[i].command = Actions[i].value
                      /\ commandRegistry[i].handler.kind \in {"editorCommand", "coreCommand"}
C4_Witness ==
    /\ phase = "registered"
    /\ Len(Actions) >= 2
    /\ HasRegistration("editor.action.revealDefinition", {"editorCommand"})
    /\ HasRegistration("undo", {"coreCommand"})
    /\ HasRegistration("_executeHoverProvider", {"internal"})

\* C5: registerInternalLanguageServiceCommands registers a command of the
\* commands registry if and only if its id starts with '_execute', under the
\* same id, and the handler it registers calls the editor's handler of that id
\* with exactly the arguments of the execution, in their order.
C5_InternalVerbatim ==
    /\ phase = "registered"
        => /\ \A id \in CommandsRegistryIds :
                  HasRegistration(id, {"internal"}) <=> StartsWith(id, "_execute")
           /\ \A i \in 1..Len(commandRegistry) :
                  commandRegistry[i].handler.kind = "internal"
                      => /\ commandRegistry[i].handler.id = commandRegistry[i].command.id
                         /\ commandRegistry[i].command.id \in CommandsRegistryIds
    /\ (outcome.op = "execute" /\ outcome.handler.kind = "internal")
        => /\ outcome.call.callee = outcome.id
           /\ outcome.call.params = outcome.args
C5_Witness ==
    /\ outcome.op = "execute"
    /\ outcome.handler.kind = "internal"
    /\ outcome.args = <<"b", "a">>
    /\ outcome.call.callee = "_executeHoverProvider"
    /\ "my_executeCommand" \in CommandsRegistryIds
    /\ "undo" \in CommandsRegistryIds

\* the when key of the command the commands registry holds under id
WhenOf(id) ==
    LET i == CHOOSE i \in 1..Len(commandsRegistry) : commandsRegistry[i].id = id
    IN commandsRegistry[i].when

\* C8: a handler built for an id that is an editor-scoped command, in the
\* commands registry too or not, is enabled exactly when a code editor is
\* active or focused; a handler built for an id found in the commands registry
\* only is enabled when a code editor is active or focused and, when none is,
\* exactly when the command's when key is 'textInputFocus' and a native text
\* input has the focus.
C8_Enablement ==
    (outcome.op = "isEnabled")
        => LET editorUp == outcome.env.activeCodeEditor \/ outcome.env.focusedCodeEditor
           IN IF outcome.id \in editorCommands
              THEN outcome.enabled = editorUp
              ELSE /\ outcome.id \in CommandsRegistryIds
                   /\ editorUp => outcome.enabled
                   /\ ~editorUp =>
                         (outcome.enabled <=> (/\ WhenOf(outcome.id) = "textInputFocus"
                                               /\ outcome.env.nativeTextInput))
C8_Witness ==
    /\ outcome.op = "isEnabled"
    /\ outcome.id = "undo"
    /\ "undo" \in editorCommands
    /\ "undo" \in CommandsRegistryIds
    /\ WhenOf("undo") = "textInputFocus"
    /\ outcome.env = [activeCodeEditor |-> FALSE, focusedCodeEditor |-> FALSE,
                      nativeTextInput |-> TRUE]
    /\ ~outcome.enabled

(***************************************************************************)
(* Properties of the harvest.                                              *)
(***************************************************************************)
ActionIds == {editorActions[i].id : i \in 1..Len(editorActions)}
KeybindingIds == {defaultKeybindings[i].command : i \in 1..Len(defaultKeybindings)}
LastAction(id) ==
    editorActions[CHOOSE i \in 1..Len(editorActions) :
                      /\ editorActions[i].id = id
                      /\ \A j \in (i + 1)..Len(editorActions) : editorActions[j].id # id]
HasMenuIcon(id) ==
    \E i \in 1..Len(menuItems) :
        menuItems[i].command.id = id /\ menuItems[i].command.icon # NoIcon
LastMenuIcon(id) ==
    menuItems[CHOOSE i \in 1..Len(menuItems) :
                  /\ menuItems[i].command.id = id
                  /\ menuItems[i].command.icon # NoIcon
                  /\ \A j \in (i + 1)..Len(menuItems) :
                        ~(menuItems[j].command.id = id
                          /\ menuItems[j].command.icon # NoIcon)].command.icon

\* C6: after initialization ACTIONS holds at most one descriptor per id, each
\* stored under its own id; no id of EXCLUDE_ACTIONS is a key; every editor
\* action id and every default keybinding command id that is not excluded is a
\* key; and the descriptor of an id that is an editor action carries the
\* action's label and the icon of its menu item, also when the id is a
\* keybinding command too, while an id that is only a keybinding command has
\* the bare descriptor.
C6_ActionsMap ==
    phase = "constructed"
        => /\ \A i, j \in 1..Len(Actions) : Actions[i].key = Actions[j].key => i = j
           /\ \A i \in 1..Len(Actions) : Actions[i].value.id = Actions[i].key
           /\ MapKeys(Actions) \cap EXCLUDE_ACTIONS = {}
           /\ MapKeys(Actions) = (ActionIds \cup KeybindingIds) \ EXCLUDE_ACTIONS
           /\ \A i \in 1..Len(Actions) :
                  LET id == Actions[i].key
                  IN IF id \in ActionIds
                     THEN /\ Actions[i].value.label = LastAction(id).label
                          /\ Actions[i].value.icon =
                                 IF HasMenuIcon(id) THEN LastMenuIcon(id) ELSE NoIcon
                     ELSE /\ Actions[i].value.label = NoLabel
                          /\ Actions[i].value.icon = NoIcon
C6_Witness ==
    /\ phase = "constructed"
    /\ "editor.action.revealDefinition" \in ActionIds \cap KeybindingIds
    /\ "editor.action.clipboardCopyAction" \in ActionIds
    /\ "undo" \in KeybindingIds
    /\ HasMenuIcon("editor.action.revealDefinition")
    /\ Len(Actions) = 2

(***************************************************************************)
(* MonacoNativeTextInputFocusContext                                       *)
(* Elements are 1..Len(elementId); NoElement stands for null / undefined.  *)
(***************************************************************************)
NoElement == 0
EditorWidgetFactoryID == "code-editor-opener"

\* NativeTextInputFocusContext.isEnabled(), the base class's: the focus is on
\* an input or a textArea
SuperIsEnabled ==
    activeElement # NoElement /\ activeTagName \in {"INPUT", "TEXTAREA"}

\* faulty variant of the initial parent: the walk starts at the active element
FirstParentSelf == activeElement
\* let parent = activeElement ? activeElement.parentElement : undefined
FirstParent ==
    IF activeElement # NoElement THEN parentElement[activeElement] ELSE NoElement

\* id && id.startsWith(EditorWidgetFactory.ID)
IsEditorWidgetId(id) == id # "" /\ StartsWith(id, EditorWidgetFactoryID)

ElementIdPool == {"", "code-editor-opener:file:///a.ts", "my-code-editor-opener"}
TagNames == {"INPUT", "TEXTAREA", "DIV"}

\* every document of at most MaxElements elements: a parent comes before its
\* children, so the parents form a forest
InitFocus ==
    /\ \E n \in 1..MaxElements :
          /\ elementId \in [1..n -> ElementIdPool]
          /\ parentElement \in {p \in [1..n -> 0..(n - 1)] : \A e \in 1..n : p[e] < e}
          /\ activeElement \in 0..n
    /\ activeTagName \in (IF activeElement = NoElement THEN {""} ELSE TagNames)
    /\ parent = NoElement /\ pc = "idle" /\ entry = "" /\ steps = 0
    /\ inEditor = FALSE /\ enabled = FALSE
    /\ CommandsIdle /\ ConfigIdle

\* isEnabled(): super.isEnabled() && ..., up to the call of
\* activeElementIsInEditor() when the left operand holds
CallIsEnabled ==
    /\ pc = "idle"
    /\ entry' = "isEnabled"
    /\ IF SuperIsEnabled
       THEN /\ pc' = "walk"
            /\ parent' = FirstParent
            /\ UNCHANGED enabled
       ELSE /\ pc' = "done"
            /\ enabled' = FALSE
            /\ UNCHANGED parent
    /\ UNCHANGED <<elementId, parentElement, activeElement, activeTagName, steps,
                   inEditor>>
    /\ UNCHANGED <<cmdVars, configVars>>

\* activeElementIsInEditor(), called on its own
CallActiveElementIsInEditor ==
    /\ pc = "idle"
    /\ entry' = "activeElementIsInEditor"
    /\ pc' = "walk"
    /\ parent' = FirstParent
    /\ UNCHANGED <<elementId, parentElement, activeElement, activeTagName, steps,
                   inEditor, enabled>>
    /\ UNCHANGED <<cmdVars, configVars>>

\* one test of the while loop, and its body or the return that follows it
WalkStep ==
    /\ pc = "walk"
    /\ IF parent = NoElement
       THEN /\ inEditor' = FALSE
            /\ enabled' = IF entry = "isEnabled" THEN TRUE ELSE enabled
            /\ pc' = "done"
            /\ UNCHANGED <<parent, steps>>
       ELSE IF IsEditorWidgetId(elementId[parent])
       THEN /\ inEditor' = TRUE
            /\ enabled' = IF entry = "isEnabled" THEN FALSE ELSE enabled
            /\ pc' = "done"
            /\ UNCHANGED <<parent, steps>>
       ELSE /\ parent' = parentElement[parent]
            /\ steps' = steps + 1
            /\ UNCHANGED <<pc, inEditor, enabled>>
    /\ UNCHANGED <<elementId, parentElement, activeElement, activeTagName, entry>>
    /\ UNCHANGED <<cmdVars, configVars>>

NextFocus ==
    \/ CallIsEnabled
    \/ CallActiveElementIsInEditor
    \/ WalkStep

SpecFocus == InitFocus /\ [][NextFocus]_vars

RECURSIVE Ancestors(_)
Ancestors(e) ==
    IF e = NoElement \/ parentElement[e] = NoElement THEN {}
    ELSE {parentElement[e]} \cup Ancestors(parentElement[e])
RECURSIVE Depth(_)
Depth(e) == IF e = NoElement THEN 0 ELSE 1 + Depth(parentElement[e])
InEditorStrictly ==
    \E a \in Ancestors(activeElement) :
        StartsWith(elementId[a], EditorWidgetFactoryID)
IsEditorOrInEditor ==
    \/ InEditorStrictly
    \/ /\ activeElement # NoElement
       /\ StartsWith(elementId[activeElement], EditorWidgetFactoryID)
FocusOnNativeTextInput ==
    activeElement # NoElement /\ activeTagName \in {"INPUT", "TEXTAREA"}

\* C7 as stated: the context is enabled if and only if the focus is on an
\* input or textArea and neither the focused element nor any element above it
\* is an editor widget element.
C7_NotItselfNorAbove ==
    (pc = "done" /\ entry = "isEnabled")
        => (enabled <=> (FocusOnNativeTextInput /\ ~IsEditorOrInEditor))

\* C7, amended: the context is enabled if and only if the focus is on an input
\* or textArea and no element strictly above the focused element is an editor
\* widget element (its id starts with the editor widget factory id); the id of
\* the focused element itself is not looked at.  The containment check visits
\* each element above the focused one at most once, so it ends on every finite
\* document, and it answers false when nothing has the focus.
C7_NotStrictlyInside ==
    /\ (pc = "done" /\ entry = "isEnabled")
          => (enabled <=> (FocusOnNativeTextInput /\ ~InEditorStrictly))
    /\ pc = "done" /\ entry = "activeElementIsInEditor"
          => /\ inEditor <=> InEditorStrictly
             /\ activeElement = NoElement => ~inEditor
    /\ pc = "walk"
          => /\ parent \in Ancestors(activeElement) \cup {NoElement}
             /\ steps + Depth(parent) + 1 = Depth(activeElement)
                  \/ (activeElement = NoElement /\ steps = 0 /\ parent = NoElement)
             /\ ENABLED WalkStep
    /\ steps <= Len(elementId)
C7_Witness ==
    /\ pc = "done" /\ entry = "isEnabled"
    /\ activeTagName = "TEXTAREA"
    /\ StartsWith(elementId[activeElement], EditorWidgetFactoryID)
    /\ ~InEditorStrictly
    /\ Ancestors(activeElement) # {}
    /\ steps >= 2
    /\ enabled

(***************************************************************************)
(* The configuration commands: indentation, end of line, tab size.         *)
(***************************************************************************)
OPEN == "QuickOpenMode.OPEN"
QuickOpenModes == {OPEN, "QuickOpenMode.OPEN_IN_BACKGROUND", "QuickOpenMode.PREVIEW"}
NoLookFor == "<undefined lookFor>"

\* const sizes = Array.from(Array(8), (_, x) => x + 1)
TabSizes == [x \in 1..8 |-> x]

\* label: size === tabSize ? `${size}   Configured Tab Size` : size.toString()
TabSizeLabel(size, tabSize) ==
    IF size = tabSize
    THEN ToString(size) \o "   Configured Tab Size"
    ELSE ToString(size)

\* configureTabSize(editor, useSpaces), as far as quickOpenService.open: the
\* prompt it opens, if it opens one
ConfigureTabSize(m, useSpaces, origin) ==
    IF m # NoModel
    THEN [opened |-> TRUE,
          error |-> NoError,
          prompt |-> [kind |-> "tabSize",
                      placeholder |-> "Select Tab Size for Current File",
                      origin |-> origin,
                      sizes |-> TabSizes,
                      labels |-> [i \in 1..Len(TabSizes) |->
                                     TabSizeLabel(TabSizes[i], m.tabSize)],
                      useSpaces |-> useSpaces,
                      tabSize |-> m.tabSize]]
    ELSE [opened |-> FALSE, error |-> NoError, prompt |-> NoPrompt]

\* faulty variant of the run below: insertSpaces not set
TabSizeRunKeepingSpaces(m, size, tabSize, useSpaces, mode) ==
    IF mode # OPEN
    THEN [model |-> m, returned |-> FALSE, modelCall |-> ""]
    ELSE [model |-> [m EXCEPT !.tabSize = IF size # 0 THEN size ELSE tabSize],
          returned |-> TRUE, modelCall |-> "updateOptions"]
\* the run(mode) of the tab size prompt's item for size
TabSizeRun(m, size, tabSize, useSpaces, mode) ==
    IF mode # OPEN
    THEN [model |-> m, returned |-> FALSE, modelCall |-> ""]
    ELSE [model |-> [m EXCEPT !.tabSize = IF size # 0 THEN size ELSE tabSize,
                              !.insertSpaces = useSpaces],
          returned |-> TRUE, modelCall |-> "updateOptions"]

\* selectIndex(lookFor) of the tab size prompt
SelectIndex(lookFor, tabSize) ==
    IF lookFor = NoLookFor \/ lookFor = "" THEN tabSize - 1 ELSE 0

\* configureIndentation(editor), as far as quickOpenService.open
ConfigureIndentation(origin) ==
    [kind |-> "indentation", placeholder |-> "Select Action", origin |-> origin,
     sizes |-> <<>>,
     labels |-> [i \in 1..2 |-> "Indent Using " \o
                                   (IF <<TRUE, FALSE>>[i] THEN "Spaces" ELSE "Tabs")],
     useSpaces |-> FALSE, tabSize |-> 0]

\* configureEol(editor), as far as quickOpenService.open
ConfigureEol(origin) ==
    [kind |-> "eol", placeholder |-> "Select End of Line Sequence",
     origin |-> origin, sizes |-> <<>>, labels |-> <<"LF", "CRLF">>,
     useSpaces |-> FALSE, tabSize |-> 0]

\* faulty variant of setEol: if (model) left out
SetEolUnguarded(m, lineEnding) ==
    IF m = NoModel
    THEN [model |-> m, modelCall |-> "",
          error |-> "TypeError: Cannot read property 'pushEOL' of undefined"]
    ELSE IF lineEnding = "CRLF" \/ lineEnding = "\r\n"
    THEN [model |-> [m EXCEPT !.eol = "CRLF"],
          modelCall |-> "pushEOL(CRLF)", error |-> NoError]
    ELSE [model |-> [m EXCEPT !.eol = "LF"],
          modelCall |-> "pushEOL(LF)", error |-> NoError]
\* setEol(editor, lineEnding)
SetEol(m, lineEnding) ==
    IF m # NoModel
    THEN IF lineEnding = "CRLF" \/ lineEnding = "\r\n"
         THEN [model |-> [m EXCEPT !.eol = "CRLF"],
               modelCall |-> "pushEOL(CRLF)", error |-> NoError]
         ELSE [model |-> [m EXCEPT !.eol = "LF"],
               modelCall |-> "pushEOL(LF)", error |-> NoError]
    ELSE [model |-> m, modelCall |-> "", error |-> NoError]

Models ==
    {NoModel} \cup [tabSize : 1..MaxTabSize, insertSpaces : BOOLEAN,
                    eol : {"LF", "CRLF"}]

InitConfig ==
    /\ model \in Models
    /\ prompt = NoPrompt
    /\ lastRun = NoRun
    /\ CommandsIdle /\ FocusIdle

\* execute(editor) of the i-th handler registerEditorCommandHandlers registers
ExecuteEditorCommand(i) ==
    /\ i \in 1..Len(RegisterEditorCommandHandlers)
    /\ LET id == RegisterEditorCommandHandlers[i].id
           h == RegisterEditorCommandHandlers[i].handler
           ran == [NoRun EXCEPT !.op = "execute", !.handler = id, !.before = model]
       IN CASE h.kind = "showReferences" ->
                 /\ lastRun' = [ran EXCEPT !.modelCall =
                                   "commandService.executeCommand(editor.action.showReferences)"]
                 /\ UNCHANGED prompt
            [] h.kind = "configIndentation" ->
                 /\ prompt' = ConfigureIndentation(id)
                 /\ lastRun' = [ran EXCEPT !.opened = TRUE]
            [] h.kind = "configEol" ->
                 /\ prompt' = ConfigureEol(id)
                 /\ lastRun' = [ran EXCEPT !.opened = TRUE]
            [] h.kind = "configTabSize" ->
                 LET did == ConfigureTabSize(model, h.useSpaces, id)
                 IN /\ prompt' = IF did.opened THEN did.prompt ELSE prompt
                    /\ lastRun' = [ran EXCEPT !.opened = did.opened,
                                              !.error = did.error]
    /\ UNCHANGED model
    /\ UNCHANGED <<cmdVars, focusVars>>

\* the prompt calls run(mode) of its i-th item; an item that returns true
\* closes the prompt
RunItem(i, mode) ==
    /\ prompt # NoPrompt
    /\ i \in 1..Len(prompt.labels)
    /\ LET ran == [NoRun EXCEPT !.op = "run", !.on = prompt.kind,
                                !.handler = prompt.origin, !.item = i,
                                !.mode = mode, !.before = model]
       IN CASE prompt.kind = "indentation" ->
                 LET useSpaces == <<TRUE, FALSE>>[i]
                     did == IF mode = OPEN
                            THEN ConfigureTabSize(model, useSpaces, prompt.labels[i])
                            ELSE [opened |-> FALSE, error |-> NoError,
                                  prompt |-> NoPrompt]
                 IN /\ prompt' = IF did.opened THEN did.prompt ELSE prompt
                    /\ lastRun' = [ran EXCEPT !.opened = did.opened,
                                              !.error = did.error,
                                              !.returned = FALSE]
                    /\ UNCHANGED model
            [] prompt.kind = "eol" ->
                 IF mode = OPEN
                 THEN LET did == SetEol(model, prompt.labels[i])
                      IN /\ model' = did.model
                         /\ lastRun' = [ran EXCEPT !.modelCall = did.modelCall,
                                                   !.error = did.error,
                                                   !.returned = TRUE]
                         /\ prompt' = NoPrompt
                 ELSE /\ lastRun' = [ran EXCEPT !.returned = FALSE]
                      /\ UNCHANGED <<model, prompt>>
            [] prompt.kind = "tabSize" ->
                 LET did == TabSizeRun(model, prompt.sizes[i], prompt.tabSize,
                                       prompt.useSpaces, mode)
                 IN /\ model' = did.model
                    /\ lastRun' = [ran EXCEPT !.modelCall = did.modelCall,
                                              !.returned = did.returned]
                    /\ prompt' = IF did.returned THEN NoPrompt ELSE prompt
    /\ UNCHANGED <<cmdVars, focusVars>>

\* the user types lookFor in the tab size prompt: selectIndex(lookFor)
TypeInTabSizePrompt(lookFor) ==
    /\ prompt.kind = "tabSize"
    /\ lastRun' = [NoRun EXCEPT !.op = "selectIndex", !.on = prompt.kind,
                                !.handler = prompt.origin, !.lookFor = lookFor,
                                !.before = model,
                                !.index = SelectIndex(lookFor, prompt.tabSize)]
    /\ UNCHANGED <<model, prompt>>
    /\ UNCHANGED <<cmdVars, focusVars>>

\* the user dismisses the prompt
ClosePrompt ==
    /\ prompt # NoPrompt
    /\ prompt' = NoPrompt
    /\ lastRun' = [NoRun EXCEPT !.op = "close", !.before = model]
    /\ UNCHANGED model
    /\ UNCHANGED <<cmdVars, focusVars>>

NextConfig ==
    \/ \E i \in 1..Len(RegisterEditorCommandHandlers) : ExecuteEditorCommand(i)
    \/ \E i \in 1..Len(prompt.labels), mode \in QuickOpenModes : RunItem(i, mode)
    \/ \E lookFor \in {NoLookFor, "", "4", "tab"} : TypeInTabSizePrompt(lookFor)
    \/ ClosePrompt

SpecConfig == InitConfig /\ [][NextConfig]_vars

(***************************************************************************)
(* Properties of the configuration commands.                               *)
(***************************************************************************)
TabSizeHandlers == {"EditorCommands.INDENT_USING_SPACES",
                    "EditorCommands.INDENT_USING_TABS"}
PromptHandlers == {"EditorCommands.CONFIG_INDENTATION", "EditorCommands.CONFIG_EOL"}
BespokeHandlers == TabSizeHandlers \cup PromptHandlers

\* C3 as stated: without a document model each of the four configuration
\* commands raises nothing, opens no prompt and changes no model option.
C3_SilentNoOp ==
    model = NoModel
        => /\ lastRun.error = NoError
           /\ lastRun.modelCall = ""
           /\ prompt = NoPrompt
           /\ ~lastRun.opened

\* C3, amended: without a document model none of the four configuration
\* commands raises an error or changes a model option, whatever the user then
\* does; indent using spaces and indent using tabs open no prompt, but
\* configure indentation and configure end-of-line do open their prompt, whose
\* choices then do nothing (a choice of the indentation prompt opens no tab
\* size prompt).
C3_NoModelNoChange ==
    model = NoModel
        => /\ lastRun.error = NoError
           /\ lastRun.op \in {"execute", "run"} /\ lastRun.handler \in BespokeHandlers
                 => lastRun.modelCall = ""
           /\ lastRun.before = NoModel
           /\ prompt.kind \in {NoPrompt.kind, "indentation", "eol"}
           /\ lastRun.op = "execute" /\ lastRun.handler \in TabSizeHandlers
                 => ~lastRun.opened
           /\ lastRun.op = "execute" /\ lastRun.handler \in PromptHandlers
                 => lastRun.opened /\ prompt.origin = lastRun.handler
           /\ lastRun.op = "run" => ~lastRun.opened
C3_Witness ==
    /\ model = NoModel
    /\ lastRun.op = "run"
    /\ lastRun.on = "eol"
    /\ lastRun.mode = OPEN
    /\ lastRun.item = 2
    /\ lastRun.returned

ConfiguredLabels == {i \in 1..Len(prompt.labels) :
                        prompt.labels[i] = ToString(i) \o "   Configured Tab Size"}
UseSpacesOf(origin) ==
    origin \in {"EditorCommands.INDENT_USING_SPACES", "Indent Using Spaces"}

\* C9: for an editor with a document model the tab size prompt offers the
\* sizes 1 to 8 in ascending order, labelling as configured the one equal to
\* the model's tabSize and no other; accepting the choice for size s in open
\* mode sets tabSize to s and insertSpaces to the useSpaces flag of the handler
\* that opened the prompt, leaves the end of line alone and reports done;
\* running a choice in any other mode changes no option and reports not done.
C9_TabSizePrompt ==
    /\ prompt.kind = "tabSize"
          => /\ model # NoModel
             /\ prompt.sizes = <<1, 2, 3, 4, 5, 6, 7, 8>>
             /\ Len(prompt.labels) = 8
             /\ \A s \in 1..8 :
                    prompt.labels[s] =
                        IF s = model.tabSize
                        THEN ToString(s) \o "   Configured Tab Size"
                        ELSE ToString(s)
             /\ Cardinality(ConfiguredLabels) <= 1
             /\ prompt.origin \in
                    TabSizeHandlers \cup {"Indent Using Spaces", "Indent Using Tabs"}
             /\ prompt.useSpaces = UseSpacesOf(prompt.origin)
    /\ lastRun.op = "run" /\ lastRun.on = "tabSize"
          => IF lastRun.mode = OPEN
             THEN /\ model.tabSize = lastRun.item
                  /\ model.insertSpaces = UseSpacesOf(lastRun.handler)
                  /\ model.eol = lastRun.before.eol
                  /\ lastRun.returned
             ELSE /\ model = lastRun.before
                  /\ ~lastRun.returned
C9_Witness ==
    /\ lastRun.op = "run" /\ lastRun.on = "tabSize"
    /\ lastRun.mode = OPEN
    /\ lastRun.handler = "EditorCommands.INDENT_USING_TABS"
    /\ lastRun.before.insertSpaces
    /\ lastRun.before.tabSize = 4
    /\ lastRun.item = 8
    /\ model.tabSize = 8
    /\ ~model.insertSpaces

\* C10: the index the tab size prompt preselects is a position of its list of
\* 8 choices (0 to 7) whatever the model's tabSize and the filter text: with an
\* empty filter the position of the choice equal to the configured tab size,
\* otherwise 0.
C10_SelectIndexValid ==
    lastRun.op = "selectIndex"
        => /\ lastRun.index \in 0..7
           /\ IF lastRun.lookFor \in {NoLookFor, ""}
              THEN prompt.sizes[lastRun.index + 1] = model.tabSize
              ELSE lastRun.index = 0

====
